---------------------------- MODULE Spec2Model ----------------------------
(***************************************************************************)
(* The project of the guide "Setting up a React Project from Scratch"      *)
(* (readme.md) and its webpack configuration (webpack.config.js).          *)
(*                                                                         *)
(* The state is the project directory on disk as the reader of the guide   *)
(* builds it up step by step, followed by one or more runs of the bundler  *)
(* with the configuration of webpack.config.js: module traversal from the  *)
(* entry, the transform rule (test / exclude / babel-loader), the emitted  *)
(* bundle, the document generated by HtmlWebPackPlugin, and the page load. *)
(*                                                                         *)
(* Strings that are matched or joined character by character (file paths)  *)
(* are sequences of one-character strings; the regular expressions of the  *)
(* rule and Node's path.join / path.resolve are computed on them.          *)
(***************************************************************************)
EXTENDS Naturals, Sequences, FiniteSets, TLC

VARIABLES
    dirname,      \* __dirname: the absolute directory holding webpack.config.js
    step,         \* the reader's position in the guide
    fs,           \* the files and directories that exist on disk (absolute paths)
    htmlListing,  \* which index.html listing of the guide src/index.html holds
    installed,    \* the packages npm has installed in node_modules
    manifest,     \* the packages package.json declares as (dev)dependencies
    probe,        \* the rule's answer for the last file path it was asked about
    build,        \* phase of the current bundler run
    runs,         \* how many bundler runs have been started
    presetSource, \* the file the transform tool reads its presets from in this run
    queue,        \* modules still to be visited by the bundler
    bundled,      \* the modules of the bundle so far
    transformed,  \* module -> the presets babel-loader applied to it
    errors,       \* modules the bundler could not parse
    generated,    \* the HTML document HtmlWebPackPlugin generated
    page          \* the outcome of loading the generated document in a browser

vars ==
    <<dirname, step, fs, htmlListing, installed, manifest, probe, build, runs,
      presetSource, queue, bundled, transformed, errors, generated, page>>

-----------------------------------------------------------------------------
(* Names appearing in webpack.config.js and in the guide.                   *)
s_src == <<"s", "r", "c">>   \* "src"
s_dist == <<"d", "i", "s", "t">>   \* "dist"
s_slash_dist == <<"/", "d", "i", "s", "t">>   \* "/dist"
s_index_js == <<"i", "n", "d", "e", "x", ".", "j", "s">>   \* "index.js"
s_index_html == <<"i", "n", "d", "e", "x", ".", "h", "t", "m", "l">>   \* "index.html"
s_App_js == <<"A", "p", "p", ".", "j", "s">>   \* "App.js"
s_bundle_js == <<"b", "u", "n", "d", "l", "e", ".", "j", "s">>   \* "bundle.js"
s_node_modules == <<"n", "o", "d", "e", "_", "m", "o", "d", "u", "l", "e", "s">>   \* "node_modules"
s_react == <<"r", "e", "a", "c", "t">>   \* "react"
s_react_dom == <<"r", "e", "a", "c", "t", "-", "d", "o", "m">>   \* "react-dom"
s_package_json == <<"p", "a", "c", "k", "a", "g", "e", ".", "j", "s", "o", "n">>   \* "package.json"
s_webpack_config_js == <<"w", "e", "b", "p", "a", "c", "k", ".", "c", "o", "n", "f", "i", "g", ".", "j", "s">>   \* "webpack.config.js"
s_babelrc == <<".", "b", "a", "b", "e", "l", "r", "c">>   \* ".babelrc"
s_dot_App == <<".", "/", "A", "p", "p">>   \* "./App"
s_ext_js == <<".", "j", "s">>   \* ".js"

-----------------------------------------------------------------------------
(* Inputs the model ranges over: config directories, and the file and      *)
(* directory names the transform rule is asked about.                      *)
d_root == <<"/">>   \* "/"
d_project == <<"/", "m", "y", "-", "p", "r", "o", "j", "e", "c", "t">>   \* "/my-project"
d_home == <<"/", "h", "o", "m", "e", "/", "d", "e", "v", "/", "m", "y", "-", "p", "r", "o", "j", "e", "c", "t">>   \* "/home/dev/my-project"
d_demo == <<"/", "h", "o", "m", "e", "/", "d", "e", "v", "/", "n", "o", "d", "e", "_", "m", "o", "d", "u", "l", "e", "s", "_", "d", "e", "m", "o", "/", "m", "y", "-", "p", "r", "o", "j", "e", "c", "t">>   \* "/home/dev/node_modules_demo/my-project"
f_a_js == <<"a", ".", "j", "s">>   \* "a.js"
f_a_mjs == <<"a", ".", "m", "j", "s">>   \* "a.mjs"
f_a_cjs == <<"a", ".", "c", "j", "s">>   \* "a.cjs"
f_a_json == <<"a", ".", "j", "s", "o", "n">>   \* "a.json"
f_ajs == <<"a", "j", "s">>   \* "ajs"
f_js == <<"j", "s">>   \* "js"
f_a_jsx == <<"a", ".", "j", "s", "x">>   \* "a.jsx"
f_a_js_map == <<"a", ".", "j", "s", ".", "m", "a", "p">>   \* "a.js.map"
f_helper_js == <<"n", "o", "d", "e", "_", "m", "o", "d", "u", "l", "e", "s", "_", "h", "e", "l", "p", "e", "r", ".", "j", "s">>   \* "node_modules_helper.js"
f_a_ts == <<"a", ".", "t", "s">>   \* "a.ts"
g_my_node_modules == <<"m", "y", "_", "n", "o", "d", "e", "_", "m", "o", "d", "u", "l", "e", "s">>   \* "my_node_modules"
s_main_js == <<"m", "a", "i", "n", ".", "j", "s">>   \* "main.js"

-----------------------------------------------------------------------------
(* String helpers.                                                          *)

EndsWith(s, suffix) ==
    /\ Len(suffix) <= Len(s)
    /\ SubSeq(s, Len(s) - Len(suffix) + 1, Len(s)) = suffix

StartsWith(s, prefix) ==
    /\ Len(prefix) <= Len(s)
    /\ SubSeq(s, 1, Len(prefix)) = prefix

\* s.split("/"): the pieces between the separators, empty pieces included.
\* The k-th piece lies between the (k-1)-th and the k-th separator.
Split(s) ==
    LET seps  == {i \in 1..Len(s) : s[i] = "/"}
        n     == Cardinality(seps)
        at(k) == IF k = 0 THEN 0
                 ELSE IF k > n THEN Len(s) + 1
                 ELSE CHOOSE i \in seps : Cardinality({j \in seps : j < i}) = k - 1
    IN  [k \in 1..(n + 1) |-> SubSeq(s, at(k - 1) + 1, at(k) - 1)]

\* segs.join("/")
RECURSIVE JoinWith(_)
JoinWith(segs) ==
    IF Len(segs) = 0 THEN <<>>
    ELSE IF Len(segs) = 1 THEN segs[1]
    ELSE segs[1] \o <<"/">> \o JoinWith(Tail(segs))

-----------------------------------------------------------------------------
(* Node's path module (posix), as required on line 1 of webpack.config.js. *)

\* normalizeString: drops empty and "." segments and resolves ".." segments.
RECURSIVE NormalizeSegments(_, _, _)
NormalizeSegments(segs, acc, allowAboveRoot) ==
    IF Len(segs) = 0 THEN acc
    ELSE LET h == Head(segs)
             t == Tail(segs)
         IN  IF h = <<>> \/ h = <<".">> THEN NormalizeSegments(t, acc, allowAboveRoot)
             ELSE IF h = <<".", ".">> THEN
                 IF Len(acc) > 0 /\ acc[Len(acc)] # <<".", ".">>
                 THEN NormalizeSegments(t, SubSeq(acc, 1, Len(acc) - 1), allowAboveRoot)
                 ELSE IF allowAboveRoot
                 THEN NormalizeSegments(t, Append(acc, h), allowAboveRoot)
                 ELSE NormalizeSegments(t, acc, allowAboveRoot)
             ELSE NormalizeSegments(t, Append(acc, h), allowAboveRoot)

normalizeString(p, allowAboveRoot) ==
    JoinWith(NormalizeSegments(Split(p), <<>>, allowAboveRoot))

\* path.normalize(p): keeps a leading and a trailing separator.
path_normalize(p) ==
    IF Len(p) = 0 THEN <<".">>
    ELSE LET isAbsolute == p[1] = "/"
             trailing   == p[Len(p)] = "/"
             n          == normalizeString(p, ~isAbsolute)
         IN  IF Len(n) = 0
             THEN IF isAbsolute THEN <<"/">>
                  ELSE IF trailing THEN <<".", "/">> ELSE <<".">>
             ELSE (IF isAbsolute THEN <<"/">> ELSE <<>>)
                  \o n \o (IF trailing THEN <<"/">> ELSE <<>>)

\* path.join(...parts): the non-empty parts joined by "/", then normalized.
path_join(parts) ==
    LET nonEmpty == SelectSeq(parts, LAMBDA x : Len(x) > 0)
    IN  IF Len(nonEmpty) = 0 THEN <<".">>
        ELSE path_normalize(JoinWith(nonEmpty))

\* path.resolve(...parts): the parts are prepended from right to left until
\* an absolute path is formed (the working directory comes last); the result
\* is normalized and has no trailing separator.
RECURSIVE ResolveFrom(_, _, _, _)
ResolveFrom(parts, i, cwd, acc) ==
    IF i = 0 THEN cwd \o <<"/">> \o acc
    ELSE IF Len(parts[i]) = 0 THEN ResolveFrom(parts, i - 1, cwd, acc)
    ELSE IF parts[i][1] = "/" THEN parts[i] \o <<"/">> \o acc
    ELSE ResolveFrom(parts, i - 1, cwd, parts[i] \o <<"/">> \o acc)

path_resolve(parts, cwd) ==
    LET n == normalizeString(ResolveFrom(parts, Len(parts), cwd, <<>>), FALSE)
    IN  <<"/">> \o n

\* path.dirname(p) for a normalized absolute path.
path_dirname(p) ==
    LET segs == Split(p)
    IN  IF Len(segs) <= 2 THEN <<"/">>
        ELSE JoinWith(SubSeq(segs, 1, Len(segs) - 1))

-----------------------------------------------------------------------------
(* Regular expressions, as far as the two of the rule need them: a          *)
(* sequence of literal characters, each possibly optional ("?"), possibly   *)
(* anchored at the end of the input ("$"). RegExp.test looks for a match    *)
(* starting at any position.                                                *)

Lit(c) == [ch |-> c, optional |-> FALSE]
Opt(c) == [ch |-> c, optional |-> TRUE]

\* The positions at which a match of atoms[k..] starting at s[i] can end.
RECURSIVE MatchEnds(_, _, _, _)
MatchEnds(atoms, k, s, i) ==
    IF k > Len(atoms) THEN {i}
    ELSE LET a    == atoms[k]
             take == IF i <= Len(s) /\ s[i] = a.ch
                     THEN MatchEnds(atoms, k + 1, s, i + 1) ELSE {}
             skip == IF a.optional THEN MatchEnds(atoms, k + 1, s, i) ELSE {}
         IN  take \cup skip

RegExpTest(re, s) ==
    \E i \in 1..(Len(s) + 1) :
        \E e \in MatchEnds(re.atoms, 1, s, i) :
            re.anchorEnd => e = Len(s) + 1

-----------------------------------------------------------------------------
(* webpack.config.js                                                        *)

\* A variant of entry that leaves out the "src" segment.
EntryNoSrc(d) == path_join(<<d, s_index_js>>)

\* entry: path.join(__dirname, "src", "index.js")
Entry(d) == path_join(<<d, s_src, s_index_js>>)

\* mode: "development"
Mode == "development"

\* A variant of output.path written like devServer.static.directory, with
\* "/dist": path.resolve restarts at an absolute segment.
OutputPathSlash(d) == path_resolve(<<d, s_slash_dist>>, d)

\* output.path: path.resolve(__dirname, "dist"); the bundler runs in __dirname.
OutputPath(d) == path_resolve(<<d, s_dist>>, d)

\* A variant without output.filename: the bundler's default name, main.js.
OutputFilenameDefault == s_main_js

\* output.filename: "bundle.js"
OutputFilename == s_bundle_js

\* test: /\.?js$/
RuleTest ==
    [atoms |-> <<Opt("."), Lit("j"), Lit("s")>>, anchorEnd |-> TRUE]

\* exclude: /node_modules/
RuleExclude ==
    [atoms |-> [i \in 1..Len(s_node_modules) |-> Lit(s_node_modules[i])],
     anchorEnd |-> FALSE]

\* use.loader: "babel-loader"
Loader == "babel-loader"

\* use.options.presets
OptionsPresets == <<"@babel/preset-env", "@babel/preset-react">>

\* devServer.static.directory: path.join(__dirname, "/dist")
StaticDirectory(d) == path_join(<<d, s_slash_dist>>)

\* A variant of template that leaves out the "src" segment.
TemplateNoSrc(d) == path_join(<<d, s_index_html>>)

\* plugins[0].template: path.join(__dirname, "src", "index.html")
Template(d) == path_join(<<d, s_src, s_index_html>>)

\* A variant with the other injection position.
InjectHead == "head"

\* plugins[0].inject: "body"
Inject == "body"

\* The rule hands a resource (an absolute file path) to its loader when the
\* test pattern matches the path and the exclude pattern does not.
RuleApplies(resource) ==
    RegExpTest(RuleTest, resource) /\ ~RegExpTest(RuleExclude, resource)

\* In development mode the bundler emits its assets even when a module
\* failed to compile; in production mode it does not.
EmitOnErrors == Mode # "production"

-----------------------------------------------------------------------------
(* The files of the guide.                                                  *)

\* A variant of .babelrc with the two presets in the other order.
BabelrcPresetsSwapped == <<"@babel/preset-react", "@babel/preset-env">>

\* .babelrc
BabelrcPresets == <<"@babel/preset-env", "@babel/preset-react">>

\* The presets the transform tool applies, by the file it reads them from.
Presets(source) ==
    IF source = "babelrc" THEN BabelrcPresets ELSE OptionsPresets

\* An HTML document is the sequence of its tags; a tag has a name, the value
\* of its id attribute and the value of its src attribute (empty when absent).
Tag(n) == [name |-> n, id |-> "", src |-> <<>>]

Div(i) == [name |-> "div", id |-> i, src |-> <<>>]

Script(s) == [name |-> "script", id |-> "", src |-> s]

Document(container) ==
    << Tag("!DOCTYPE"), Tag("html"),
       Tag("head"), Tag("meta charset"), Tag("meta http-equiv"),
       Tag("meta viewport"), Tag("title"), Tag("/head"),
       Tag("body"), container, Tag("/div"), Tag("/body"),
       Tag("/html") >>

\* index.html as listed under "Getting started": <div id="&#8221;root&#8221;">,
\* the id value typed between typographic quotation marks (U+201D).
IndexHtmlGettingStarted == Document(Div("&#8221;root&#8221;"))

\* index.html as listed under "Completed Code": <div id="root">
IndexHtmlCompleted == Document(Div("root"))

IndexHtml(listing) ==
    IF listing = "GettingStarted" THEN IndexHtmlGettingStarted
    ELSE IndexHtmlCompleted

\* package.json as listed under "Completed Code": its "dependencies" and
\* "devDependencies".
Dependencies == {"react", "react-dom"}

DevDependencies ==
    {"@babel/preset-env", "@babel/preset-react", "babel-loader",
     "html-webpack-plugin", "webpack", "webpack-cli", "webpack-dev-server"}

PackageJsonCompleted == Dependencies \cup DevDependencies

\* The packages webpack.config.js requires or names as loader or preset
\* ("path" is part of Node, not a package).
ConfigPackages ==
    {"html-webpack-plugin", Loader}
        \cup {OptionsPresets[k] : k \in 1..Len(OptionsPresets)}

\* index.js: document.getElementById("root")
ContainerId == "root"

\* The import statements of index.js and App.js; packages import nothing
\* the bundle of this project depends on.
Imports(d, m) ==
    IF m = path_join(<<d, s_src, s_index_js>>) THEN <<s_react, s_react_dom, s_dot_App>>
    ELSE IF m = path_join(<<d, s_src, s_App_js>>) THEN <<s_react>>
    ELSE <<>>

\* index.js and App.js hold JSX, which the bundler cannot parse by itself.
HasJSX(d, m) ==
    m \in {path_join(<<d, s_src, s_index_js>>), path_join(<<d, s_src, s_App_js>>)}

\* Module resolution: a relative request is looked up beside the importer
\* with the extension .js, a package under node_modules.
Resolve(d, importer, request) ==
    IF StartsWith(request, <<".", "/">>)
    THEN path_join(<<path_dirname(importer), request>>) \o s_ext_js
    ELSE path_join(<<d, s_node_modules, request, s_index_js>>)

\* What `npm i <package>` puts on disk, as far as the bundle reads it.
PackageFiles(d, pkg) ==
    { path_join(<<d, s_node_modules>>),
      path_join(<<d, s_node_modules, pkg>>),
      path_join(<<d, s_node_modules, pkg, s_index_js>>) }

\* HtmlWebPackPlugin: the template with a script tag for the bundle put at
\* the end of the body (inject: "body") or of the head (inject: "head").
RECURSIVE InjectScript(_, _, _)
InjectScript(doc, where, script) ==
    IF Len(doc) = 0 THEN <<>>
    ELSE IF Head(doc).name = (IF where = "head" THEN "/head" ELSE "/body")
         THEN <<script>> \o doc
         ELSE <<Head(doc)>> \o InjectScript(Tail(doc), where, script)

\* document.getElementById
GetElementById(doc, i) ==
    \E k \in 1..Len(doc) : doc[k].id = i

-----------------------------------------------------------------------------
(* Bounds and input sets.                                                   *)

\* The deepest directory nesting of the paths the rule is asked about.
MaxDepth == 2

\* How many times the bundler is run.
MaxRuns == 2

DirNames == {d_root, d_project, d_home, d_demo}

ProbeDirs == {s_src, s_node_modules, g_my_node_modules}

ProbeFiles ==
    {f_a_js, f_a_mjs, f_a_cjs, f_a_json, f_ajs, f_js, f_a_jsx, f_a_js_map,
     f_helper_js, f_a_ts, s_index_js, s_index_html}

RECURSIVE DirSeqs(_)
DirSeqs(n) ==
    IF n = 0 THEN {<<>>}
    ELSE LET shorter == DirSeqs(n - 1)
         IN  shorter \cup {Append(q, g) : q \in shorter, g \in ProbeDirs}

\* Paths relative to the config directory, as sequences of segments.
ProbePaths == {Append(q, f) : q \in DirSeqs(MaxDepth), f \in ProbeFiles}

NoProbe == [path |-> <<>>, test |-> FALSE, exclude |-> FALSE, handed |-> FALSE]

NoModules == [m \in {} |-> <<>>]

-----------------------------------------------------------------------------
(* The state before the guide starts: an empty project directory.           *)

Init ==
    /\ dirname \in DirNames
    /\ step = "empty"
    /\ fs = {dirname}
    /\ htmlListing = "none"
    /\ installed = {}
    /\ manifest = {}
    /\ probe = NoProbe
    /\ build = "idle"
    /\ runs = 0
    /\ presetSource = "none"
    /\ queue = <<>>
    /\ bundled = {}
    /\ transformed = NoModules
    /\ errors = {}
    /\ generated = <<>>
    /\ page = "none"

runVars ==
    <<build, runs, presetSource, queue, bundled, transformed, errors, generated, page>>

-----------------------------------------------------------------------------
(* The steps of the guide.                                                  *)

\* mkdir my-project; cd my-project; git init; npm init -y
NpmInit ==
    /\ step = "empty"
    /\ step' = "initialized"
    /\ fs' = fs \cup {path_join(<<dirname, s_package_json>>)}
    /\ UNCHANGED <<dirname, htmlListing, installed, manifest, probe, runVars>>

\* mkdir src; cd src; touch index.html, filled with the template listed there
MakeSrc ==
    /\ step = "initialized"
    /\ step' = "src"
    /\ fs' = fs \cup {path_join(<<dirname, s_src>>),
                      path_join(<<dirname, s_src, s_index_html>>)}
    /\ htmlListing' = "GettingStarted"
    /\ UNCHANGED <<dirname, installed, manifest, probe, runVars>>

\* touch index.js App.js, filled with the listings
TouchJs ==
    /\ step = "src"
    /\ step' = "js"
    /\ fs' = fs \cup {path_join(<<dirname, s_src, s_index_js>>),
                      path_join(<<dirname, s_src, s_App_js>>)}
    /\ UNCHANGED <<dirname, htmlListing, installed, manifest, probe, runVars>>

\* npm i react react-dom; npm i webpack webpack-cli webpack-dev-server --save-dev
InstallReactWebpack ==
    /\ step = "js"
    /\ step' = "deps"
    /\ installed' = installed \cup
           {"react", "react-dom", "webpack", "webpack-cli", "webpack-dev-server"}
    /\ manifest' = manifest \cup
           {"react", "react-dom", "webpack", "webpack-cli", "webpack-dev-server"}
    /\ fs' = fs \cup PackageFiles(dirname, s_react) \cup PackageFiles(dirname, s_react_dom)
    /\ UNCHANGED <<dirname, htmlListing, probe, runVars>>

\* add webpack.config.js: entry, output, mode, devServer
WriteConfig ==
    /\ step = "deps"
    /\ step' = "config"
    /\ fs' = fs \cup {path_join(<<dirname, s_webpack_config_js>>)}
    /\ UNCHANGED <<dirname, htmlListing, installed, manifest, probe, runVars>>

\* npm i babel-loader @babel/core @babel/preset-env @babel/preset-react --save-dev
InstallBabel ==
    /\ step = "config"
    /\ step' = "babel"
    /\ installed' = installed \cup
           {"babel-loader", "@babel/core", "@babel/preset-env", "@babel/preset-react"}
    /\ manifest' = manifest \cup
           {"babel-loader", "@babel/core", "@babel/preset-env", "@babel/preset-react"}
    /\ UNCHANGED <<dirname, fs, htmlListing, probe, runVars>>

\* add module.rules to webpack.config.js
AddLoaders ==
    /\ step = "babel"
    /\ step' = "loaders"
    /\ UNCHANGED <<dirname, fs, htmlListing, installed, manifest, probe, runVars>>

\* create .babelrc
WriteBabelrc ==
    /\ step = "loaders"
    /\ step' = "babelrc"
    /\ fs' = fs \cup {path_join(<<dirname, s_babelrc>>)}
    /\ UNCHANGED <<dirname, htmlListing, installed, manifest, probe, runVars>>

\* npm install html-webpack-plugin --save-dev
InstallHtmlPlugin ==
    /\ step = "babelrc"
    /\ step' = "htmlplugin"
    /\ installed' = installed \cup {"html-webpack-plugin"}
    /\ manifest' = manifest \cup {"html-webpack-plugin"}
    /\ UNCHANGED <<dirname, fs, htmlListing, probe, runVars>>

\* add plugins to webpack.config.js: the configuration is now the one of
\* webpack.config.js
AddPlugins ==
    /\ step = "htmlplugin"
    /\ step' = "ready"
    /\ UNCHANGED <<dirname, fs, htmlListing, installed, manifest, probe, runVars>>

\* "If your code didn't work try comparing your code to mine": the reader
\* replaces the files by the listings of "Completed Code".
\* The bundler is stopped meanwhile.
CompareWithCompleted ==
    /\ step = "ready"
    /\ build \in {"idle", "done"}
    /\ htmlListing = "GettingStarted"
    /\ htmlListing' = "CompletedCode"
    /\ build' = "idle"
    /\ manifest' = PackageJsonCompleted
    /\ UNCHANGED <<dirname, step, fs, installed, probe, runs, presetSource, queue,
                   bundled, transformed, errors, generated, page>>

-----------------------------------------------------------------------------
(* The transform rule, asked about one file path of the project before the *)
(* first run: what its two patterns answer and whether the file would be   *)
(* handed to the loader.                                                    *)

RuleDecision(resource) ==
    [path    |-> resource,
     test    |-> RegExpTest(RuleTest, resource),
     exclude |-> RegExpTest(RuleExclude, resource),
     handed  |-> RuleApplies(resource)]

Probe ==
    /\ step = "ready"
    /\ runs = 0
    /\ probe = NoProbe
    /\ \E p \in ProbePaths : probe' = RuleDecision(path_join(<<dirname>> \o p))
    /\ UNCHANGED <<dirname, step, fs, htmlListing, installed, manifest, runVars>>

-----------------------------------------------------------------------------
(* A run of the bundler with the configuration (npm start).                 *)

\* The run starts at the entry; the transform tool reads its presets from
\* the loader options or from .babelrc.
BuildStart ==
    /\ step = "ready"
    /\ build = "idle"
    /\ runs < MaxRuns
    /\ runs' = runs + 1
    /\ \E source \in {"options", "babelrc"} : presetSource' = source
    /\ IF Entry(dirname) \in fs
       THEN build' = "modules" /\ queue' = <<Entry(dirname)>>
       ELSE build' = "failed" /\ queue' = <<>>
    /\ bundled' = {}
    /\ transformed' = NoModules
    /\ errors' = {}
    /\ generated' = <<>>
    /\ page' = "none"
    /\ UNCHANGED <<dirname, step, fs, htmlListing, installed, manifest, probe>>

\* The next module of the queue is read: it goes through the loader when the
\* rule applies to it, and its imports are queued. A module holding JSX that
\* did not go through the loader cannot be parsed.
BuildModule ==
    /\ build = "modules"
    /\ queue # <<>>
    /\ LET m       == Head(queue)
           handed  == RuleDecision(m).handed
           parsed  == handed \/ ~HasJSX(dirname, m)
           reqs    == Imports(dirname, m)
           targets == [k \in 1..Len(reqs) |-> Resolve(dirname, m, reqs[k])]
           found   == SelectSeq(targets, LAMBDA t : t \in fs)
       IN  IF m \in bundled
           THEN /\ queue' = Tail(queue)
                /\ UNCHANGED <<bundled, transformed, errors>>
           ELSE /\ bundled' = bundled \cup {m}
                /\ transformed' = IF handed
                                  THEN transformed @@ (m :> Presets(presetSource))
                                  ELSE transformed
                /\ errors' = IF parsed /\ Len(found) = Len(targets)
                             THEN errors ELSE errors \cup {m}
                /\ queue' = IF parsed THEN Tail(queue) \o found ELSE Tail(queue)
    /\ probe' = RuleDecision(Head(queue))
    /\ UNCHANGED <<dirname, step, fs, htmlListing, installed, manifest,
                   build, runs, presetSource, generated, page>>

\* The bundle is written to output.path under output.filename; the directory
\* is created when it does not exist.
Emit ==
    /\ build = "modules"
    /\ queue = <<>>
    /\ IF errors = {} \/ EmitOnErrors
       THEN /\ build' = "emitted"
            /\ fs' = fs \cup {OutputPath(dirname),
                              path_join(<<OutputPath(dirname), OutputFilename>>)}
       ELSE /\ build' = "failed"
            /\ fs' = fs
    /\ UNCHANGED <<dirname, step, htmlListing, installed, manifest, probe, runs,
                   presetSource, queue, bundled, transformed, errors, generated, page>>

\* HtmlWebPackPlugin generates index.html in output.path from the template,
\* with a script tag referring to the bundle.
EmitHtml ==
    /\ build = "emitted"
    /\ IF Template(dirname) \in fs
       THEN /\ generated' = InjectScript(IndexHtml(htmlListing), Inject,
                                         Script(OutputFilename))
            /\ fs' = fs \cup {path_join(<<OutputPath(dirname), s_index_html>>)}
            /\ build' = "done"
       ELSE /\ build' = "failed"
            /\ UNCHANGED <<generated, fs>>
    /\ UNCHANGED <<dirname, step, htmlListing, installed, manifest, probe, runs,
                   presetSource, queue, bundled, transformed, errors, page>>

\* The browser loads the generated document: the script runs
\* ReactDOM.render(<App />, document.getElementById("root")).
LoadPage ==
    /\ build = "done"
    /\ page = "none"
    /\ page' = IF errors = {} /\ GetElementById(generated, ContainerId)
               THEN "mounted" ELSE "error"
    /\ UNCHANGED <<dirname, step, fs, htmlListing, installed, manifest, probe, build,
                   runs,
                   presetSource, queue, bundled, transformed, errors, generated>>

\* npm start is run again.
Rebuild ==
    /\ build \in {"done", "failed"}
    /\ runs < MaxRuns
    /\ build' = "idle"
    /\ UNCHANGED <<dirname, step, fs, htmlListing, installed, manifest, probe, runs,
                   presetSource, queue, bundled, transformed, errors, generated, page>>

Next ==
    \/ NpmInit
    \/ MakeSrc
    \/ TouchJs
    \/ InstallReactWebpack
    \/ WriteConfig
    \/ InstallBabel
    \/ AddLoaders
    \/ WriteBabelrc
    \/ InstallHtmlPlugin
    \/ AddPlugins
    \/ CompareWithCompleted
    \/ Probe
    \/ BuildStart
    \/ BuildModule
    \/ Emit
    \/ EmitHtml
    \/ LoadPage
    \/ Rebuild

Spec == Init /\ [][Next]_vars


-----------------------------------------------------------------------------
(* Properties.                                                              *)

HasDirSegment(p, seg) ==
    LET segs == Split(p)
    IN  \E k \in 1..(Len(segs) - 1) : segs[k] = seg

\* <d>/dist written out, without the path module.
DistOf(d) == IF d = <<"/">> THEN s_slash_dist ELSE d \o s_slash_dist

FileIn(dir, name) == dir \o <<"/">> \o name

ScriptPositions(doc) == {k \in 1..Len(doc) : doc[k].name = "script"}

Position(doc, n) == CHOOSE k \in 1..Len(doc) : doc[k].name = n

\* C1: the test pattern of the transform rule matches a file path exactly
\* when the path ends in the extension ".js".
C1_TestMatchesExactlyDotJs ==
    probe # NoProbe => (probe.test <=> EndsWith(probe.path, s_ext_js))

\* C2: the exclude pattern skips a file exactly when its path has a directory
\* segment named node_modules: a path under a node_modules directory is never
\* handed to babel-loader, and a ".js" path with no directory segment named
\* node_modules is handed to babel-loader.
C2_ExcludeSkipsExactlyNodeModules ==
    probe # NoProbe =>
        LET under == HasDirSegment(probe.path, s_node_modules)
        IN  /\ probe.exclude <=> under
            /\ under => ~probe.handed
            /\ (EndsWith(probe.path, s_ext_js) /\ ~under) => probe.handed

C4_ContainerInEveryListing ==
    htmlListing # "none" => GetElementById(IndexHtml(htmlListing), ContainerId)

\* C5: once webpack.config.js is on disk, the entry path it declares,
\* <__dirname>/src/index.js, exists on disk.
C5_EntryExists ==
    path_join(<<dirname, s_webpack_config_js>>) \in fs
        => /\ Entry(dirname) \in fs
           /\ Entry(dirname) = FileIn(FileIn(IF dirname = <<"/">> THEN <<>> ELSE dirname, s_src), s_index_js)

C5_BuildReadEntry ==
    /\ build = "modules"
    /\ Entry(dirname) \in bundled

\* C6: once webpack.config.js is on disk, the template path it declares,
\* <__dirname>/src/index.html, exists on disk.
C6_TemplateExists ==
    path_join(<<dirname, s_webpack_config_js>>) \in fs
        => /\ Template(dirname) \in fs
           /\ Template(dirname) = FileIn(FileIn(IF dirname = <<"/">> THEN <<>> ELSE dirname, s_src), s_index_html)

C6_PluginReadTemplate ==
    /\ build = "done"
    /\ generated # <<>>
    /\ Template(dirname) \in fs

\* C8: in the generated document the script tag referring to the bundle lies
\* inside the body and not inside the head, and the document without that
\* tag is the template.
C8_ScriptInjectedInBody ==
    build = "done" =>
        /\ SelectSeq(generated, LAMBDA t : t.name # "script") = IndexHtml(htmlListing)
        /\ ScriptPositions(generated) # {}
        /\ \A k \in ScriptPositions(generated) :
              /\ generated[k].src = OutputFilename
              /\ Position(generated, "body") < k
              /\ k < Position(generated, "/body")
              /\ ~(Position(generated, "head") < k /\ k < Position(generated, "/head"))

C8_DocumentGenerated ==
    /\ build = "done"
    /\ htmlListing = "CompletedCode"
    /\ ScriptPositions(generated) # {}

\* C9: devServer.static.directory and output.path are the same directory,
\* <__dirname>/dist, and after a build the served directory holds the bundle.
C9_ServedDirectoryIsOutputPath ==
    /\ StaticDirectory(dirname) = OutputPath(dirname)
    /\ StaticDirectory(dirname) = DistOf(dirname)
    /\ build \in {"emitted", "done"} =>
          FileIn(StaticDirectory(dirname), OutputFilename) \in fs

C9_BundleServed ==
    /\ build = "done"
    /\ dirname = d_home
    /\ FileIn(StaticDirectory(dirname), OutputFilename) \in fs

\* C10: a file that went through babel-loader was transformed by
\* @babel/preset-env then @babel/preset-react, the list of the loader options
\* and of .babelrc alike, whichever of the two files the presets were read from.
C10_SamePresetsFromBothFiles ==
    /\ \A m \in DOMAIN transformed :
          /\ transformed[m] = OptionsPresets
          /\ transformed[m] = BabelrcPresets
          /\ transformed[m] = <<"@babel/preset-env", "@babel/preset-react">>
    /\ build # "idle" => Presets("options") = Presets("babelrc")

C10_TransformedFromBabelrc ==
    /\ presetSource = "babelrc"
    /\ path_join(<<dirname, s_babelrc>>) \in fs
    /\ path_join(<<dirname, s_src, s_App_js>>) \in DOMAIN transformed

\* C11: the package.json of "Completed Code" declares, in dependencies or
\* devDependencies, every package the guide installed with npm and every
\* package webpack.config.js requires or names as loader or preset.
C11_ManifestDeclaresEverything ==
    (step = "ready" /\ htmlListing = "CompletedCode") =>
        /\ installed \subseteq manifest
        /\ ConfigPackages \subseteq manifest

=============================================================================
